---- MODULE Spec2Model ----
(***************************************************************************)
(* Model of src/functions/generate_content.ts: the three entry points      *)
(* generateContent, generateContentStream and generateContentGoogleAuth.   *)
(* Every async function is cut at its await points: the synchronous prefix *)
(* (normalise, validate, build the body) is one step, then the token, the  *)
(* transport reply, the status gate and the decoder each take one step.    *)
(* The helpers imported from pre_fetch_processing, post_request and        *)
(* post_fetch_processing are modelled from their described contracts.      *)
(***************************************************************************)
EXTENDS Integers, Sequences, FiniteSets, TLC

VARIABLES
  built,          \* the structured request object as the caller built it, before any call
  callerRequest,  \* the structured request object the caller owns and passes by reference
  gcWriter,       \* the invocation that last assigned callerRequest.generationConfig (0: none)
  calls,          \* per invocation: its arguments, locals, position and outcome
  wire,           \* streaming body text the transport has not delivered yet
  buffer,         \* the stream decoder's accumulating text buffer
  emitted,        \* the records the stream decoder has emitted so far
  sent,           \* the records the server encoded into the streaming body
  splits          \* what the chunk boundaries have done so far (mid-record cut, several records at once)

vars == <<built, callerRequest, gcWriter, calls, wire, buffer, emitted, sent, splits>>
streamVars == <<wire, buffer, emitted, sent, splits>>

\* ---------------------------------------------------------------- bounds

MaxCalls == 2
MaxRecords == 2
MaxRecLen == 1

Calls == 1..MaxCalls

\* ------------------------------------------------------- optional values

\* undefined, and a present value v
Undefined == <<>>
Some(v) == <<v>>
IsDefined(o) == o # Undefined
Val(o) == o[1]

\* a ?? b
NullishCoalesceArgWins(a, b) == IF IsDefined(b) THEN b ELSE a
NullishCoalesce(a, b) == IF IsDefined(a) THEN a ELSE b

\* ------------------------------------------------------------ constants

USER_ROLE == "user"
MODEL_ROLE == "model"
GENERATE_CONTENT_METHOD == "generateContent"
STREAMING_GENERATE_CONTENT_METHOD == "streamGenerateContent"

\* accepted range of the sampling parameter topK, and the default candidate count
TopKMin == 1
TopKMax == 40
DefaultCandidateCount == 1

\* ------------------------------------------------------------- helpers

\* formatContentRequest on a string: one user turn carrying the separately
\* supplied generation config and safety settings (tools are not passed to it)
WrapString(text, generationConfig, safetySettings) ==
  [contents |-> << [role |-> USER_ROLE, parts |-> <<text>>] >>,
   generationConfig |-> generationConfig,
   safetySettings |-> safetySettings,
   tools |-> Undefined]

\* validateGenerateContentRequest does not throw: content turns present, roles accepted
RequestOK(request) ==
  /\ Len(request.contents) > 0
  /\ \A i \in 1..Len(request.contents) :
       request.contents[i].role \in {USER_ROLE, MODEL_ROLE}

\* validateGenerationConfig does not throw: the sampling parameter is in range
GenerationConfigOK(config) ==
  IsDefined(config.topK) => (Val(config.topK) >= TopKMin /\ Val(config.topK) <= TopKMax)

\* validateGenerationConfig's return value: defaults filled in for omitted fields
validateGenerationConfig(config) ==
  [config EXCEPT !.candidateCount =
     IF IsDefined(@) THEN @ ELSE Some(DefaultCandidateCount)]

\* throwErrorIfNotOK / throwErrorIfNotOKGoogleAuth do not throw: 2xx
ResponseOK(status) == status >= 200 /\ status <= 299

\* processUnary parses the body: it must carry the expected top-level shape
BodyWellFormed(shape) == shape = "candidates"

\* the generateContentRequest literal handed to the transport as data
BuildBody(request, generationConfig, safetySettings, tools) ==
  [contents |-> request.contents,
   generationConfig |-> NullishCoalesce(request.generationConfig, generationConfig),
   safetySettings |-> NullishCoalesce(request.safetySettings, safetySettings),
   tools |-> NullishCoalesce(request.tools, tools)]

\* resourceMethod of each entry point
ResourceMethodAlwaysUnary(entry) == GENERATE_CONTENT_METHOD
ResourceMethod(entry) ==
  IF entry = "generateContentStream"
    THEN STREAMING_GENERATE_CONTENT_METHOD
    ELSE GENERATE_CONTENT_METHOD

\* ---------------------------------------------------------------- values

NoBody == [contents |-> <<>>, generationConfig |-> Undefined,
           safetySettings |-> Undefined, tools |-> Undefined]

Pending == [kind |-> "pending", error |-> "", cause |-> "", status |-> 0, response |-> ""]
Result(data) == [Pending EXCEPT !.kind = "result", !.response = data]
StreamResult == [Pending EXCEPT !.kind = "stream"]
Rejected(error, cause, status) ==
  [Pending EXCEPT !.kind = "error", !.error = error, !.cause = cause, !.status = status]

IdleCall ==
  [pc |-> "idle", entry |-> "none",
   input |-> "none",               \* "string" or "object": the variant of the request argument
   original |-> NoBody,            \* the caller's object as it was when the call was made
   generationConfig |-> Undefined, safetySettings |-> Undefined, tools |-> Undefined,
   wrapped |-> NoBody,             \* the object formatContentRequest built for a string
   body |-> Undefined,             \* generateContentRequest
   posts |-> <<>>,                 \* the transport invocations made, in order
   tokenFate |-> "", postFate |-> "", status |-> 0, shape |-> "",
   gateCalls |-> 0,                \* times throwErrorIfNotOK[GoogleAuth] was invoked
   gatePassed |-> FALSE,           \* it returned without throwing
   decoderCalls |-> 0,             \* times processUnary / processStream was invoked
   stream |-> "none",              \* the returned stream: none, open, complete, failed
   crossRead |-> FALSE,            \* read a field another invocation had assigned
   outcome |-> Pending]

\* ---------------------------------------------------------------- inputs

Config(topK, candidateCount) == [topK |-> topK, candidateCount |-> candidateCount]

Turn(role) == [role |-> role, parts |-> <<"hi">>]

RequestConfigs ==
  {Undefined, Some(Config(Some(1), Undefined)), Some(Config(Some(40), Some(2))),
   Some(Config(Some(0), Undefined)), Some(Config(Undefined, Undefined))}
ArgConfigs ==
  {Undefined, Some(Config(Some(7), Some(1))), Some(Config(Some(41), Some(1)))}

RequestObjects ==
  [contents : {<<>>, <<Turn(USER_ROLE)>>, <<Turn("narrator")>>},
   generationConfig : RequestConfigs,
   safetySettings : {Undefined, Some(<<>>), Some(<<"requestSafety">>)},
   tools : {Undefined, Some(<<"requestTool">>)}]

ArgSafety == {Undefined, Some(<<"argSafety">>)}
ArgTools == {Undefined, Some(<<"argTool">>)}

\* the reduced inputs of the concurrent specification
SmallObjects ==
  [contents : {<<Turn(USER_ROLE)>>},
   generationConfig : {Undefined, Some(Config(Some(1), Undefined))},
   safetySettings : {Undefined},
   tools : {Undefined}]
SmallArgConfigs == {Undefined, Some(Config(Some(7), Some(1)))}

Statuses == {200, 429}
Shapes == {"candidates", "malformed"}

\* ------------------------------------------------------------ operations

Finish(c, outcome) ==
  calls' = [calls EXCEPT ![c].pc = "done", ![c].outcome = outcome]

\* The synchronous prefix shared by the three entry points: format, validate,
\* re-assign request.generationConfig, build generateContentRequest, and reach
\* `await token` in the argument list of the transport call.
Enter(c, entry, input, generationConfig, safetySettings, tools) ==
  LET wrapped == IF input = "string"
                   THEN WrapString("hi", generationConfig, safetySettings)
                   ELSE NoBody
      request == IF input = "object" THEN callerRequest ELSE wrapped
      hasConfig == IsDefined(request.generationConfig)
      valid == RequestOK(request)
                 /\ (hasConfig => GenerationConfigOK(Val(request.generationConfig)))
      validated == IF valid /\ hasConfig
                     THEN [request EXCEPT !.generationConfig =
                             Some(validateGenerationConfig(Val(@)))]
                     ELSE request
      started == [IdleCall EXCEPT
                    !.entry = entry, !.input = input,
                    !.original = IF input = "object" THEN callerRequest ELSE NoBody,
                    !.generationConfig = generationConfig,
                    !.safetySettings = safetySettings,
                    !.tools = tools,
                    !.crossRead = /\ input = "object"
                                  /\ RequestOK(request)
                                  /\ gcWriter \notin {0, c}]
  IN /\ calls[c].pc = "idle"
     /\ IF input = "object"
          THEN /\ callerRequest' = validated
               /\ gcWriter' = IF valid /\ hasConfig THEN c ELSE gcWriter
          ELSE UNCHANGED <<callerRequest, gcWriter>>
     /\ calls' = [calls EXCEPT ![c] =
          IF valid
            THEN [started EXCEPT
                    !.pc = "awaitToken",
                    !.wrapped = IF input = "string" THEN validated ELSE NoBody,
                    !.body = Some(BuildBody(validated, generationConfig,
                                            safetySettings, tools))]
            ELSE [started EXCEPT
                    !.pc = "done",
                    !.wrapped = wrapped,
                    !.outcome = Rejected("InvalidArgument", "", 0)]]
     /\ UNCHANGED <<built, streamVars>>

generateContent(c, input, generationConfig, safetySettings, tools) ==
  Enter(c, "generateContent", input, generationConfig, safetySettings, tools)

generateContentStream(c, input, generationConfig, safetySettings, tools) ==
  Enter(c, "generateContentStream", input, generationConfig, safetySettings, tools)

generateContentGoogleAuth(c, input, generationConfig, safetySettings, tools) ==
  Enter(c, "generateContentGoogleAuth", input, generationConfig, safetySettings, tools)

\* `await token` resolves and postRequest / postRequestGoogleAuth is invoked
TokenResolves(c) ==
  /\ calls[c].pc = "awaitToken"
  /\ calls' = [calls EXCEPT
       ![c].pc = "awaitPost",
       ![c].tokenFate = "resolved",
       ![c].posts = Append(@, [resourceMethod |-> ResourceMethod(calls[c].entry),
                               data |-> Val(calls[c].body)])]
  /\ UNCHANGED <<built, callerRequest, gcWriter, streamVars>>

\* `await token` rejects: the argument list is never completed, the transport
\* is not invoked and no catch handler is attached yet
TokenRejects(c) ==
  /\ calls[c].pc = "awaitToken"
  /\ calls' = [calls EXCEPT
       ![c].pc = "done",
       ![c].tokenFate = "rejected",
       ![c].outcome = Rejected("TokenRejection", "", 0)]
  /\ UNCHANGED <<built, callerRequest, gcWriter, streamVars>>

\* the transport promise resolves with a response
PostResolves(c, status, shape) ==
  /\ calls[c].pc = "awaitPost"
  /\ calls' = [calls EXCEPT
       ![c].pc = "statusCheck",
       ![c].postFate = "resolved",
       ![c].status = status,
       ![c].shape = shape]
  /\ UNCHANGED <<built, callerRequest, gcWriter, streamVars>>

\* the transport promise rejects: .catch wraps the cause
PostRejectsRaw(c) ==
  /\ calls[c].pc = "awaitPost"
  /\ calls' = [calls EXCEPT
       ![c].pc = "done",
       ![c].postFate = "rejected",
       ![c].outcome = Rejected("TransportException", "", 0)]
  /\ UNCHANGED <<built, callerRequest, gcWriter, streamVars>>
PostRejects(c) ==
  /\ calls[c].pc = "awaitPost"
  /\ calls' = [calls EXCEPT
       ![c].pc = "done",
       ![c].postFate = "rejected",
       ![c].outcome = Rejected("GoogleGenerativeAIError", "TransportException", 0)]
  /\ UNCHANGED <<built, callerRequest, gcWriter, streamVars>>

\* what follows the status gate once it has passed
AfterGateUnaryDecoder(call) ==
  [call EXCEPT !.gatePassed = TRUE, !.decoderCalls = @ + 1, !.pc = "decoding"]
AfterGate(call) ==
  CASE call.entry = "generateContent" ->
         [call EXCEPT !.gatePassed = TRUE, !.decoderCalls = @ + 1, !.pc = "decoding"]
    [] call.entry = "generateContentStream" ->
         [call EXCEPT !.gatePassed = TRUE, !.decoderCalls = @ + 1, !.pc = "done",
                      !.stream = "open", !.outcome = StreamResult]
    [] OTHER ->
         [call EXCEPT !.gatePassed = TRUE, !.pc = "done",
                      !.outcome = Result(call.shape)]

\* await throwErrorIfNotOK(response), then the return statement
StatusCheckSkipped(c) ==
  /\ calls[c].pc = "statusCheck"
  /\ calls' = [calls EXCEPT ![c] = AfterGate([@ EXCEPT !.gatePassed = FALSE])]
  /\ UNCHANGED <<built, callerRequest, gcWriter, streamVars>>
StatusCheck(c) ==
  /\ calls[c].pc = "statusCheck"
  /\ calls' = [calls EXCEPT ![c] =
       IF ResponseOK(@.status)
         THEN AfterGate([@ EXCEPT !.gateCalls = @ + 1])
         ELSE [@ EXCEPT !.gateCalls = @ + 1, !.pc = "done",
                        !.outcome = Rejected("HttpError", "", calls[c].status)]]
  /\ UNCHANGED <<built, callerRequest, gcWriter, streamVars>>

\* processUnary(response) settles
DecodeUnary(c) ==
  /\ calls[c].pc = "decoding"
  /\ Finish(c, IF BodyWellFormed(calls[c].shape)
                 THEN Result(calls[c].shape)
                 ELSE Rejected("MalformedResponse", "", 0))
  /\ UNCHANGED <<built, callerRequest, gcWriter, streamVars>>

\* -------------------------------------------------------- specification

Quiet ==
  /\ built = callerRequest
  /\ gcWriter = 0
  /\ calls = [c \in Calls |-> IdleCall]
  /\ wire = <<>>
  /\ buffer = <<>>
  /\ emitted = <<>>
  /\ sent = <<>>
  /\ splits = {}

Init == callerRequest \in RequestObjects /\ Quiet

\* one invocation on its own, over the full input space
Next ==
  \/ \E input \in {"string", "object"}, g \in ArgConfigs, s \in ArgSafety, t \in ArgTools :
       \/ generateContent(1, input, g, s, t)
       \/ generateContentStream(1, input, g, s, t)
       \/ generateContentGoogleAuth(1, input, g, s, t)
  \/ TokenResolves(1)
  \/ TokenRejects(1)
  \/ \E status \in Statuses, shape \in Shapes : PostResolves(1, status, shape)
  \/ PostRejects(1)
  \/ StatusCheck(1)
  \/ DecodeUnary(1)

Spec == Init /\ [][Next]_vars

\* several invocations in flight at once, over reduced inputs; they may be
\* given the caller's one request object or a string each
NextConc ==
  \/ \E c \in Calls, input \in {"string", "object"}, g \in SmallArgConfigs :
       \/ generateContent(c, input, g, Undefined, Undefined)
       \/ generateContentStream(c, input, g, Undefined, Undefined)
       \/ generateContentGoogleAuth(c, input, g, Undefined, Undefined)
  \/ \E c \in Calls : TokenResolves(c)
  \/ \E c \in Calls : TokenRejects(c)
  \/ \E c \in Calls, status \in Statuses, shape \in Shapes : PostResolves(c, status, shape)
  \/ \E c \in Calls : PostRejects(c)
  \/ \E c \in Calls : StatusCheck(c)
  \/ \E c \in Calls : DecodeUnary(c)

InitConc == callerRequest \in SmallObjects /\ Quiet

SpecConc == InitConc /\ [][NextConc]_vars

\* ------------------------------------------------------- stream decoding

\* the framing: every record is followed by the delimiter
Delimiter == <<"\n", "\n">>

RECURSIVE Flatten(_)
Flatten(seqs) == IF seqs = <<>> THEN <<>> ELSE Head(seqs) \o Flatten(Tail(seqs))

\* a record is a JSON object, here one whose only content is a short text
Stringify(record) == <<"{">> \o record \o <<"}">>
EncodeStream(records) ==
  Flatten([i \in 1..Len(records) |-> Stringify(records[i]) \o Delimiter])

\* JSON.parse of one record's text: Undefined when it is not an object
ParseRecord(text) ==
  IF Len(text) >= 2 /\ text[1] = "{" /\ text[Len(text)] = "}"
       /\ \A i \in 2..(Len(text) - 1) : text[i] \notin {"{", "}", "\n"}
    THEN Some(SubSeq(text, 2, Len(text) - 1))
    ELSE Undefined

\* where the first complete record of the buffer ends (0: no boundary yet)
Boundary(text) ==
  LET at == {i \in 1..(Len(text) - Len(Delimiter) + 1) :
               SubSeq(text, i, i + Len(Delimiter) - 1) = Delimiter}
  IN IF at = {} THEN 0 ELSE CHOOSE i \in at : \A j \in at : i <= j

\* scan the buffer repeatedly: extract, parse and emit every complete record
RECURSIVE Drain(_, _)
Drain(text, out) ==
  LET b == Boundary(text) IN
  IF b = 0 THEN [buffer |-> text, emitted |-> out, failed |-> FALSE]
  ELSE LET record == ParseRecord(SubSeq(text, 1, b - 1)) IN
       IF IsDefined(record)
         THEN Drain(SubSeq(text, b + Len(Delimiter), Len(text)), Append(out, Val(record)))
         ELSE [buffer |-> text, emitted |-> out, failed |-> TRUE]

OnlyWhitespace(text) == \A i \in 1..Len(text) : text[i] = "\n"

Alphabet == {"a", "b"}
Records == UNION {[1..n -> Alphabet] : n \in 0..MaxRecLen}
RecordSeqs == UNION {[1..n -> Records] : n \in 0..MaxRecords}

\* the transport resolves with a streaming response whose body encodes `records`
PostResolvesStream(c, status, records) ==
  /\ calls[c].pc = "awaitPost"
  /\ calls[c].entry = "generateContentStream"
  /\ calls' = [calls EXCEPT
       ![c].pc = "statusCheck",
       ![c].postFate = "resolved",
       ![c].status = status,
       ![c].shape = "candidates"]
  /\ wire' = EncodeStream(records)
  /\ sent' = records
  /\ UNCHANGED <<built, callerRequest, gcWriter, buffer, emitted, splits>>

\* the next chunk of the body, the first n characters still on the wire, arrives
ReadChunk(c, n) ==
  /\ calls[c].stream = "open"
  /\ n \in 1..Len(wire)
  /\ LET after == Drain(buffer \o SubSeq(wire, 1, n), emitted) IN
       /\ wire' = SubSeq(wire, n + 1, Len(wire))
       /\ buffer' = after.buffer
       /\ emitted' = after.emitted
       /\ splits' = splits
            \cup (IF after.buffer # <<>> THEN {"midRecord"} ELSE {})
            \cup (IF Len(after.emitted) >= Len(emitted) + 2 THEN {"multiRecord"} ELSE {})
       /\ calls' = [calls EXCEPT ![c].stream = IF after.failed THEN "failed" ELSE "open"]
  /\ UNCHANGED <<built, callerRequest, gcWriter, sent>>

\* the body stream signals completion: leftover text is a framing error
StreamEnd(c) ==
  /\ calls[c].stream = "open"
  /\ wire = <<>>
  /\ calls' = [calls EXCEPT ![c].stream =
       IF OnlyWhitespace(buffer) THEN "complete" ELSE "failed"]
  /\ UNCHANGED <<built, callerRequest, gcWriter, streamVars>>

\* one streaming invocation and the consumption of the stream it returns
NextStream ==
  \/ \E g \in SmallArgConfigs :
       generateContentStream(1, "string", g, Undefined, Undefined)
  \/ TokenResolves(1)
  \/ \E status \in Statuses, records \in RecordSeqs : PostResolvesStream(1, status, records)
  \/ StatusCheck(1)
  \/ \E n \in 1..(MaxRecords * (MaxRecLen + 2 + Len(Delimiter))) : ReadChunk(1, n)
  \/ StreamEnd(1)

SpecStream == InitConc /\ [][NextStream]_vars

\* --------------------------------------------------------------- claims

Started(c) == calls[c].pc # "idle"
Done(c) == calls[c].pc = "done"
Failed(c, error) == Done(c) /\ calls[c].outcome.kind = "error" /\ calls[c].outcome.error = error

\* C1: for a structured request that passed validation, the body handed to the
\* transport takes generationConfig, safetySettings and tools each from the
\* request when the request has the field and from the separate argument only
\* when it lacks it, field by field.
C1_RequestValueWins ==
  \A c \in Calls :
    (calls[c].input = "object" /\ calls[c].posts # <<>>) =>
      LET data == calls[c].posts[1].data
          was == calls[c].original
      IN /\ data.generationConfig =
              IF IsDefined(was.generationConfig)
                THEN callerRequest.generationConfig
                ELSE calls[c].generationConfig
         /\ IsDefined(was.generationConfig) =>
              Val(data.generationConfig).topK = Val(was.generationConfig).topK
         /\ data.safetySettings =
              IF IsDefined(was.safetySettings)
                THEN was.safetySettings
                ELSE calls[c].safetySettings
         /\ data.tools =
              IF IsDefined(was.tools) THEN was.tools ELSE calls[c].tools

\* C1's case: one body mixing a request-supplied field that beats a supplied
\* argument, an argument used as fallback, and a request-supplied config
C1_Witness ==
  \E c \in Calls :
    /\ calls[c].input = "object" /\ calls[c].posts # <<>>
    /\ IsDefined(calls[c].original.generationConfig) /\ IsDefined(calls[c].generationConfig)
    /\ ~IsDefined(calls[c].original.safetySettings) /\ IsDefined(calls[c].safetySettings)
    /\ IsDefined(calls[c].original.tools) /\ IsDefined(calls[c].tools)
    /\ calls[c].posts[1].data.tools = calls[c].original.tools
    /\ calls[c].posts[1].data.safetySettings = calls[c].safetySettings

\* the generation config that would end up in the transport body
EffectiveConfig(c) ==
  IF calls[c].input = "object" /\ IsDefined(calls[c].original.generationConfig)
    THEN calls[c].original.generationConfig
    ELSE calls[c].generationConfig

OutOfRange(config) ==
  IsDefined(config) /\ IsDefined(Val(config).topK)
    /\ (Val(Val(config).topK) < TopKMin \/ Val(Val(config).topK) > TopKMax)

\* C2: whenever the generation config that ends up in the body (the request's
\* own, or the argument when the request has none) has an out-of-range
\* sampling parameter, the call fails with InvalidArgument and the transport
\* is never invoked.
C2_OutOfRangeNeverPosted ==
  \A c \in Calls :
    (Started(c) /\ OutOfRange(EffectiveConfig(c))) =>
      /\ calls[c].posts = <<>>
      /\ Done(c) => Failed(c, "InvalidArgument")

\* C3: in generateContent and generateContentStream the decoder is invoked
\* only after the status check of that response returned without error; on a
\* non-2xx status the call fails with HttpError, the decoder is never invoked
\* and no result is produced.
C3_GateBeforeDecoder ==
  \A c \in Calls :
    calls[c].entry \in {"generateContent", "generateContentStream"} =>
      /\ calls[c].decoderCalls > 0 =>
           /\ calls[c].gateCalls = 1 /\ calls[c].gatePassed
           /\ calls[c].status >= 200 /\ calls[c].status <= 299
      /\ (calls[c].postFate = "resolved"
            /\ (calls[c].status < 200 \/ calls[c].status > 299)) =>
           /\ calls[c].decoderCalls = 0
           /\ calls[c].stream = "none"
           /\ calls[c].outcome.kind \notin {"result", "stream"}
           /\ Done(c) => (Failed(c, "HttpError")
                            /\ calls[c].outcome.status = calls[c].status)

\* C3's case: a 429 reply to a unary or streaming call ended in HttpError
C3_Witness ==
  \E c \in Calls :
    /\ calls[c].entry \in {"generateContent", "generateContentStream"}
    /\ Failed(c, "HttpError") /\ calls[c].outcome.status = 429
    /\ calls[c].gateCalls = 1

\* C4: when the transport promise rejects, the caller receives the domain
\* error GoogleGenerativeAIError wrapping the cause, never the raw exception,
\* and neither the status check nor the decoder runs.
C4_TransportFailureWrapped ==
  \A c \in Calls :
    calls[c].postFate = "rejected" =>
      /\ Failed(c, "GoogleGenerativeAIError")
      /\ calls[c].outcome.cause = "TransportException"
      /\ calls[c].gateCalls = 0
      /\ calls[c].decoderCalls = 0

\* C4's case: a transport call was made and rejected
C4_Witness ==
  \E c \in Calls :
    /\ calls[c].postFate = "rejected" /\ Len(calls[c].posts) = 1 /\ Done(c)

Replies(c) ==
  <<calls[c].tokenFate, calls[c].postFate, calls[c].status, calls[c].shape>>
Arguments(c) ==
  <<calls[c].input, calls[c].original, calls[c].generationConfig,
    calls[c].safetySettings, calls[c].tools>>

\* C5: generateContentGoogleAuth and generateContent, given the same request,
\* optional arguments and server reply, end in the same outcome: the same
\* result or an error of the same kind, MalformedResponse included.
C5_GoogleAuthSameOutcome ==
  \A c, d \in Calls :
    (/\ calls[c].entry = "generateContent"
     /\ calls[d].entry = "generateContentGoogleAuth"
     /\ Done(c) /\ Done(d)
     /\ Arguments(c) = Arguments(d)
     /\ Replies(c) = Replies(d)) =>
      /\ calls[c].outcome.kind = calls[d].outcome.kind
      /\ calls[c].outcome.error = calls[d].outcome.error
      /\ calls[c].outcome.response = calls[d].outcome.response

\* C6: after any invocation the caller's request object (its generationConfig
\* field included) is as it was before the call.
C6_RequestObjectUnchanged ==
  \A c \in Calls :
    (Started(c) /\ calls[c].input = "object") => callerRequest = calls[c].original

\* what an invocation does when it runs alone on the request as the caller built it
SoloRequest(c) ==
  IF calls[c].input = "object"
    THEN built
    ELSE WrapString("hi", calls[c].generationConfig, calls[c].safetySettings)
SoloValid(c) ==
  /\ RequestOK(SoloRequest(c))
  /\ IsDefined(SoloRequest(c).generationConfig) =>
       GenerationConfigOK(Val(SoloRequest(c).generationConfig))
SoloBody(c) ==
  LET request == SoloRequest(c) IN
  BuildBody(IF IsDefined(request.generationConfig)
              THEN [request EXCEPT !.generationConfig =
                      Some(validateGenerationConfig(Val(@)))]
              ELSE request,
            calls[c].generationConfig, calls[c].safetySettings, calls[c].tools)

\* the observable half of C7: same validation verdict and same body as alone
SoloBehaviour ==
  \A c \in Calls :
    Started(c) =>
      /\ SoloValid(c) <=> ~Failed(c, "InvalidArgument")
      /\ calls[c].posts # <<>> => calls[c].posts[1].data = SoloBody(c)

\* C7: invocations in flight together, also on one request object, each send
\* the body and reach the outcome they would alone, and none reads state
\* written by another.
C7_Independent ==
  /\ SoloBehaviour
  /\ \A c \in Calls : ~calls[c].crossRead

\* C8: the stream returned by generateContentStream emits exactly the records
\* that were encoded with the delimiter, in order, whatever the chunking.
C8_StreamRoundTrip ==
  \A c \in Calls :
    /\ (calls[c].entry = "generateContentStream" /\ calls[c].gatePassed) =>
         (calls[c].outcome.kind = "stream" /\ calls[c].stream # "none")
    /\ calls[c].stream # "none" =>
         /\ calls[c].stream # "failed"
         /\ Len(emitted) <= Len(sent)
         /\ emitted = SubSeq(sent, 1, Len(emitted))
         /\ calls[c].stream = "complete" => emitted = sent

\* C8's case: several records, a chunk that ended inside a record and a chunk
\* that held several records, and the stream ran to completion
C8_Witness ==
  \E c \in Calls :
    /\ calls[c].stream = "complete"
    /\ Len(sent) >= 2 /\ sent[1] # sent[2]
    /\ emitted = sent
    /\ splits = {"midRecord", "multiRecord"}

ErrorKinds == {"InvalidArgument", "GoogleGenerativeAIError", "HttpError", "MalformedResponse"}

\* C9: every error an entry point rejects with is InvalidArgument,
\* RequestFailed (GoogleGenerativeAIError), HttpError or MalformedResponse,
\* also when the caller's token promise rejects.
C9_OnlyFourErrorKinds ==
  \A c \in Calls :
    (Done(c) /\ calls[c].outcome.kind = "error") => calls[c].outcome.error \in ErrorKinds

\* C10: an invocation calls the transport at most once, exactly once when
\* validation succeeded and the token resolved, never again after a failure,
\* with the unary method in generateContent and generateContentGoogleAuth and
\* the streaming method in generateContentStream.
C10_OneTransportCall ==
  \A c \in Calls :
    /\ Len(calls[c].posts) <= 1
    /\ Len(calls[c].posts) =
         IF IsDefined(calls[c].body) /\ calls[c].tokenFate = "resolved" THEN 1 ELSE 0
    /\ calls[c].posts # <<>> =>
         calls[c].posts[1].resourceMethod =
           IF calls[c].entry = "generateContentStream"
             THEN "streamGenerateContent"
             ELSE "generateContent"

\* C10's case: a streaming call whose one transport call was answered 429
C10_Witness ==
  \E c \in Calls :
    /\ calls[c].entry = "generateContentStream"
    /\ Failed(c, "HttpError")
    /\ Len(calls[c].posts) = 1

====
